---- MODULE Spec2Model ----
(***************************************************************************)
(* In-circuit KZG opening-proof verifier (std/commitments/kzg/verifier.go). *)
(*                                                                         *)
(* Group elements are modelled by their discrete logarithm with respect to *)
(* the fixed generator of their group, so G1, G2 and Gt of a family are    *)
(* all Z_r (r the prime order of the family's scalar field) and the        *)
(* pairing is e([x]G1, [y]G2) = [x*y]Gt, written additively: the identity   *)
(* of Gt is 0.  The two families keep distinct prime orders, scaled down.  *)
(***************************************************************************)
EXTENDS Integers, Sequences, FiniteSets, TLC

VARIABLES
    pc,        \* position of the caller's workflow
    fam,       \* the family the circuit is parametrized with
    alpha,     \* the setup's secret scalar (ghost: only the reference setup knows it)
    srs,       \* the native SRS object (reached through a pointer)
    poly,      \* the committed polynomial f (ghost of the reference prover)
    point,     \* the evaluation point a of the honest opening
    scen,      \* which (commitment, proof) pair the caller presents
    vk0,       \* the Verifier as NewVerifier returned it
    vk,        \* the Verifier
    cmtW,      \* the Commitment witness the caller holds
    proofW,    \* the OpeningProof witness the caller holds
    last,      \* the last AssertProof call: what it was given and what it returned
    conv,      \* the last conversion call: function, selector, inputs, result
    conv2      \* the result of repeating the call recorded in conv

vars == <<pc, fam, alpha, srs, poly, point, scen, vk0, vk, cmtW, proofW, last, conv, conv2>>

----------------------------------------------------------------------------
(* Bounds and sizes *)

\* largest degree of a committed polynomial
MaxDeg == 2

\* prime order of bn254's scalar field, scaled down
Order_bn254 == 5

\* prime order of bls12-377's scalar field, scaled down
Order_bls12377 == 3

\* an emulated element is two limbs in this base
LimbBase == 4

Families == {"bn254", "bls12377"}

\* a type parametrization outside the two families (G1ElementT admits more)
Selectors == Families \cup {"bls12381"}

Order(f) == IF f = "bn254" THEN Order_bn254 ELSE Order_bls12377

Fr(f) == 0 .. (Order(f) - 1)

None == [kind |-> "none"]

----------------------------------------------------------------------------
(* Witness encodings *)

\* emulated.ValueOf: a value as limbs, least significant first
Limbs(n) == <<n % LimbBase, n \div LimbBase>>

LimbsValue(l) == l[1] + LimbBase * l[2]

\* fr.Element.String: the decimal digits, most significant first
RECURSIVE String(_)
String(n) == IF n < 10 THEN <<n>> ELSE Append(String(n \div 10), n % 10)

\* a frontend.Variable given as a decimal string, read by the circuit
RECURSIVE ParseString(_)
ParseString(s) ==
    IF Len(s) = 0 THEN 0
    ELSE 10 * ParseString(SubSeq(s, 1, Len(s) - 1)) + s[Len(s)]

\* sw_bn254.NewG1Affine / sw_bls12377.NewG1Affine
NewG1Affine(f, k) ==
    IF f = "bn254" THEN [fam |-> f, Limbs |-> Limbs(k)] ELSE [fam |-> f, V |-> k]

\* sw_bn254.NewG2Affine / sw_bls12377.NewG2Affine
NewG2Affine(f, k) ==
    IF f = "bn254" THEN [fam |-> f, Limbs |-> Limbs(k)] ELSE [fam |-> f, V |-> k]

\* sw_bn254.NewScalar
NewScalar(k) == [fam |-> "bn254", Limbs |-> Limbs(k)]

\* the value a group-element witness stands for
ElemValue(w) == IF w.fam = "bn254" THEN LimbsValue(w.Limbs) % Order(w.fam) ELSE w.V % Order(w.fam)

\* the value a scalar witness stands for
ScalarValue(w) ==
    IF w.fam = "bn254" THEN LimbsValue(w.Limbs) % Order(w.fam)
    ELSE ParseString(w.Str) % Order(w.fam)

\* the zero value of a witness type (var ret T)
ZeroG1(sel) == [fam |-> sel, zero |-> TRUE]

\* the zero value of a scalar witness type
ZeroScalar(sel) == [fam |-> sel, zero |-> TRUE]

----------------------------------------------------------------------------
(* Native (non-circuit) values, each tagged with its concrete type *)

G1Type(f) == IF f = "bn254" THEN "bn254.G1Affine" ELSE "bls12377.G1Affine"

FrType(f) == IF f = "bn254" THEN "fr_bn254.Element" ELSE "fr_bls12377.Element"

ProofType(f) == IF f = "bn254" THEN "kzg_bn254.OpeningProof" ELSE "kzg_bls12377.OpeningProof"

SRSPtrType(f) == IF f = "bn254" THEN "*kzg_bn254.SRS" ELSE "*kzg_bls12377.SRS"

SRSValType(f) == IF f = "bn254" THEN "kzg_bn254.SRS" ELSE "kzg_bls12377.SRS"

NativeG1(f, k) == [type |-> G1Type(f), v |-> k]

NativeFr(f, k) == [type |-> FrType(f), v |-> k]

NativeProof(f, h, v) == [type |-> ProofType(f), H |-> h, ClaimedValue |-> v]

\* a *kzg.SRS pointing at an SRS whose verifying key holds G2[0], G2[1]
NativeSRS(f, g0, g1) == [type |-> SRSPtrType(f), isNil |-> FALSE, G2 |-> <<g0, g1>>]

\* a value of no type the conversions know (an untyped nil, a string, ...)
Untyped == [type |-> "other"]

NativeG1s == UNION {{NativeG1(f, k) : k \in Fr(f)} : f \in Families} \cup {Untyped}

NativeFrs == UNION {{NativeFr(f, k) : k \in Fr(f)} : f \in Families} \cup {Untyped}

NativeProofs ==
    UNION {{NativeProof(f, h, v) : h \in Fr(f), v \in Fr(f)} : f \in Families} \cup {Untyped}

\* pointers to an SRS, nil pointers of the pointer types, SRS values passed
\* without the pointer, and values of no known type
NativeSRSs ==
    UNION {{NativeSRS(f, g, (a * g) % Order(f)) : g \in Fr(f), a \in Fr(f)} : f \in Families}
        \cup {[type |-> SRSPtrType(f), isNil |-> TRUE] : f \in Families}
        \cup {[type |-> SRSValType(f), isNil |-> FALSE, G2 |-> <<1, 1>>] : f \in Families}
        \cup {Untyped}

----------------------------------------------------------------------------
(* Conversion layer *)

\* ValueOfCommitment[G1El](cmt), asserting cmt's type before looking at G1El
ValueOfCommitment_AssertFirst(sel, cmt) ==
    IF cmt.type \notin {G1Type(f) : f \in Families}
    THEN [ret |-> [G1El |-> ZeroG1(sel)], err |-> "TypeMismatch"]
    ELSE IF sel \notin Families
    THEN [ret |-> [G1El |-> ZeroG1(sel)], err |-> "UnsupportedFamily"]
    ELSE IF cmt.type # G1Type(sel)
    THEN [ret |-> [G1El |-> ZeroG1(sel)], err |-> "TypeMismatch"]
    ELSE [ret |-> [G1El |-> NewG1Affine(sel, cmt.v)], err |-> "nil"]

\* ValueOfCommitment[G1El](cmt): sel is the type argument G1El
ValueOfCommitment(sel, cmt) ==
    LET ret == [G1El |-> ZeroG1(sel)] IN
    CASE sel = "bn254" ->
            IF cmt.type # "bn254.G1Affine"
            THEN [ret |-> ret, err |-> "TypeMismatch"]
            ELSE [ret |-> [ret EXCEPT !.G1El = NewG1Affine("bn254", cmt.v)], err |-> "nil"]
      [] sel = "bls12377" ->
            IF cmt.type # "bls12377.G1Affine"
            THEN [ret |-> ret, err |-> "TypeMismatch"]
            ELSE [ret |-> [ret EXCEPT !.G1El = NewG1Affine("bls12377", cmt.v)], err |-> "nil"]
      [] OTHER -> [ret |-> ret, err |-> "UnsupportedFamily"]

ZeroProof(sel) ==
    [QuotientPoly |-> ZeroG1(sel[2]), ClaimedValue |-> ZeroScalar(sel[1]), Point |-> ZeroScalar(sel[1])]

\* ValueOfOpeningProof[S, G1El](point, proof), without the assertion on point
ValueOfOpeningProof_NoPointAssert(sel, pt, proof) ==
    LET ret == ZeroProof(sel)
        f == sel[1] IN
    IF sel \notin {<<"bn254", "bn254">>, <<"bls12377", "bls12377">>}
    THEN [ret |-> ret, err |-> "UnsupportedFamily"]
    ELSE IF proof.type # ProofType(f)
    THEN [ret |-> ret, err |-> "TypeMismatch"]
    ELSE IF pt.type = "other"
    THEN [ret |-> ret, err |-> "panic"]
    ELSE [ret |-> [QuotientPoly |-> NewG1Affine(f, proof.H),
                   ClaimedValue |-> IF f = "bn254" THEN NewScalar(proof.ClaimedValue)
                                    ELSE [fam |-> f, Str |-> String(proof.ClaimedValue)],
                   Point |-> IF f = "bn254" THEN NewScalar(pt.v)
                             ELSE [fam |-> f, Str |-> String(pt.v)]],
          err |-> "nil"]

\* ValueOfOpeningProof[S, G1El](point, proof), filling Point from the proof's
\* ClaimedValue
ValueOfOpeningProof_PointFromValue(sel, pt, proof) ==
    LET ret == ZeroProof(sel)
        f == sel[1] IN
    IF sel \notin {<<"bn254", "bn254">>, <<"bls12377", "bls12377">>}
    THEN [ret |-> ret, err |-> "UnsupportedFamily"]
    ELSE IF proof.type # ProofType(f) \/ pt.type # FrType(f)
    THEN [ret |-> ret, err |-> "TypeMismatch"]
    ELSE [ret |-> [QuotientPoly |-> NewG1Affine(f, proof.H),
                   ClaimedValue |-> IF f = "bn254" THEN NewScalar(proof.ClaimedValue)
                                    ELSE [fam |-> f, Str |-> String(proof.ClaimedValue)],
                   Point |-> IF f = "bn254" THEN NewScalar(proof.ClaimedValue)
                             ELSE [fam |-> f, Str |-> String(proof.ClaimedValue)]],
          err |-> "nil"]

\* ValueOfOpeningProof[S, G1El](point, proof): sel is the pair <<S, G1El>>
ValueOfOpeningProof(sel, pt, proof) ==
    LET ret == ZeroProof(sel) IN
    CASE sel = <<"bn254", "bn254">> ->
            IF proof.type # "kzg_bn254.OpeningProof"
            THEN [ret |-> ret, err |-> "TypeMismatch"]
            ELSE IF pt.type # "fr_bn254.Element"
            THEN [ret |-> ret, err |-> "TypeMismatch"]
            ELSE [ret |-> [QuotientPoly |-> NewG1Affine("bn254", proof.H),
                           ClaimedValue |-> NewScalar(proof.ClaimedValue),
                           Point |-> NewScalar(pt.v)],
                  err |-> "nil"]
      [] sel = <<"bls12377", "bls12377">> ->
            IF proof.type # "kzg_bls12377.OpeningProof"
            THEN [ret |-> ret, err |-> "TypeMismatch"]
            ELSE IF pt.type # "fr_bls12377.Element"
            THEN [ret |-> ret, err |-> "TypeMismatch"]
            ELSE [ret |-> [QuotientPoly |-> NewG1Affine("bls12377", proof.H),
                           ClaimedValue |-> [fam |-> "bls12377", Str |-> String(proof.ClaimedValue)],
                           Point |-> [fam |-> "bls12377", Str |-> String(pt.v)]],
                  err |-> "nil"]
      [] OTHER -> [ret |-> ret, err |-> "UnsupportedFamily"]

ZeroSRS(sel) == [SRS |-> <<[fam |-> sel, zero |-> TRUE], [fam |-> sel, zero |-> TRUE]>>]

\* ValueOfSRS[G2El](srs), clearing the verifying key it has read
ValueOfSRS_Consume(sel, s) ==
    IF sel \in Families /\ s.type = SRSPtrType(sel) /\ ~s.isNil
    THEN [ret |-> [SRS |-> <<NewG2Affine(sel, s.G2[1]), NewG2Affine(sel, s.G2[2])>>],
          err |-> "nil", srs |-> [s EXCEPT !.G2 = <<0, 0>>]]
    ELSE [ret |-> ZeroSRS(sel), srs |-> s,
          err |-> IF sel \notin Families THEN "UnsupportedFamily"
                  ELSE IF s.type # SRSPtrType(sel) THEN "TypeMismatch" ELSE "panic"]

\* ValueOfSRS[G2El](srs): sel is the type argument G2El; srs is a pointer, and
\* the result carries the object it points to as the call leaves it.  A nil
\* pointer of the family's pointer type passes the type assertion and the
\* read of tSrs.Vk dereferences it.
ValueOfSRS(sel, s) ==
    LET ret == ZeroSRS(sel) IN
    CASE sel = "bn254" ->
            IF s.type # "*kzg_bn254.SRS"
            THEN [ret |-> ret, err |-> "TypeMismatch", srs |-> s]
            ELSE IF s.isNil
            THEN [ret |-> ret, err |-> "panic", srs |-> s]
            ELSE [ret |-> [SRS |-> <<NewG2Affine("bn254", s.G2[1]), NewG2Affine("bn254", s.G2[2])>>],
                  err |-> "nil", srs |-> s]
      [] sel = "bls12377" ->
            IF s.type # "*kzg_bls12377.SRS"
            THEN [ret |-> ret, err |-> "TypeMismatch", srs |-> s]
            ELSE IF s.isNil
            THEN [ret |-> ret, err |-> "panic", srs |-> s]
            ELSE [ret |-> [SRS |-> <<NewG2Affine("bls12377", s.G2[1]), NewG2Affine("bls12377", s.G2[2])>>],
                  err |-> "nil", srs |-> s]
      [] OTHER -> [ret |-> ret, err |-> "UnsupportedFamily", srs |-> s]

----------------------------------------------------------------------------
(* The capabilities the Verifier is given: algebra.Curve and algebra.Pairing *)

\* a group-element witness of family f standing for k
Elem(f, k) == NewG1Affine(f, k % Order(f))

\* Curve.ScalarMulBase(s): [s]G1, G1 the generator (discrete logarithm 1)
ScalarMulBase(c, s) == Elem(c, ScalarValue(s))

\* Curve.ScalarMul(p, s): [s]p
ScalarMul(c, p, s) == Elem(c, ElemValue(p) * ScalarValue(s))

\* Curve.Add(p, q)
Add(c, p, q) == Elem(c, ElemValue(p) + ElemValue(q))

\* Curve.Neg(p)
Neg(c, p) == Elem(c, Order(c) - ElemValue(p))

\* the pairing e(p, q), as an element of Gt (identity 0)
Pair(c, p, q) == (ElemValue(p) * ElemValue(q)) % Order(c)

RECURSIVE PairingProduct(_, _, _)
PairingProduct(c, Ps, Qs) ==
    IF Len(Ps) = 0 THEN 0
    ELSE (Pair(c, Head(Ps), Head(Qs)) + PairingProduct(c, Tail(Ps), Tail(Qs))) % Order(c)

\* Pairing.PairingCheck(P, Q): nil when the product of the pairings is the
\* identity of Gt, an error otherwise
PairingCheck(c, Ps, Qs) ==
    IF PairingProduct(c, Ps, Qs) = 0 THEN "nil" ELSE "pairing mismatch"

----------------------------------------------------------------------------
(* Verifier *)

\* NewVerifier(srs, curve, pairing)
NewVerifier(s, curve, pairing) == [SRS |-> s.SRS, curve |-> curve, pairing |-> pairing]

\* AssertProof returning nil whatever the pairing check returned
AssertProof_Swallow(v, commitment, proof) ==
    LET claimedValueG1 == ScalarMulBase(v.curve, proof.ClaimedValue)
        fminusfaG1 == Add(v.curve, Neg(v.curve, claimedValueG1), commitment.G1El)
        negQuotientPoly == Neg(v.curve, proof.QuotientPoly)
        totalG1 == Add(v.curve, ScalarMul(v.curve, proof.QuotientPoly, proof.Point), fminusfaG1)
        Ps == <<totalG1, negQuotientPoly>>
        Qs == <<v.SRS[1], v.SRS[2]>>
    IN  [vk |-> v, err |-> "nil",
         pairing |-> <<[P |-> Ps, Q |-> Qs, err |-> PairingCheck(v.pairing, Ps, Qs)]>>]

\* AssertProof pairing the quotient itself, not its negation, with [alpha]G2
AssertProof_NoNeg(v, commitment, proof) ==
    LET claimedValueG1 == ScalarMulBase(v.curve, proof.ClaimedValue)
        fminusfaG1 == Add(v.curve, Neg(v.curve, claimedValueG1), commitment.G1El)
        totalG1 == Add(v.curve, ScalarMul(v.curve, proof.QuotientPoly, proof.Point), fminusfaG1)
        Ps == <<totalG1, proof.QuotientPoly>>
        Qs == <<v.SRS[1], v.SRS[2]>>
        err == PairingCheck(v.pairing, Ps, Qs)
    IN  [vk |-> v, err |-> IF err # "nil" THEN "ProofInvalid" ELSE "nil",
         pairing |-> <<[P |-> Ps, Q |-> Qs, err |-> err]>>]

\* AssertProof adding [f(a)]G1 to the commitment instead of subtracting it
AssertProof_AddClaimed(v, commitment, proof) ==
    LET claimedValueG1 == ScalarMulBase(v.curve, proof.ClaimedValue)
        fminusfaG1 == Add(v.curve, claimedValueG1, commitment.G1El)
        negQuotientPoly == Neg(v.curve, proof.QuotientPoly)
        totalG1 == Add(v.curve, ScalarMul(v.curve, proof.QuotientPoly, proof.Point), fminusfaG1)
        Ps == <<totalG1, negQuotientPoly>>
        Qs == <<v.SRS[1], v.SRS[2]>>
        err == PairingCheck(v.pairing, Ps, Qs)
    IN  [vk |-> v, err |-> IF err # "nil" THEN "ProofInvalid" ELSE "nil",
         pairing |-> <<[P |-> Ps, Q |-> Qs, err |-> err]>>]

\* AssertProof leaving the ClaimedValue out of the first pairing argument
AssertProof_NoClaimedValue(v, commitment, proof) ==
    LET negQuotientPoly == Neg(v.curve, proof.QuotientPoly)
        totalG1 == Add(v.curve, ScalarMul(v.curve, proof.QuotientPoly, proof.Point),
                       commitment.G1El)
        Ps == <<totalG1, negQuotientPoly>>
        Qs == <<v.SRS[1], v.SRS[2]>>
        err == PairingCheck(v.pairing, Ps, Qs)
    IN  [vk |-> v, err |-> IF err # "nil" THEN "ProofInvalid" ELSE "nil",
         pairing |-> <<[P |-> Ps, Q |-> Qs, err |-> err]>>]

\* AssertProof multiplying the quotient by the ClaimedValue instead of the Point
AssertProof_WrongScalar(v, commitment, proof) ==
    LET claimedValueG1 == ScalarMulBase(v.curve, proof.ClaimedValue)
        fminusfaG1 == Add(v.curve, Neg(v.curve, claimedValueG1), commitment.G1El)
        negQuotientPoly == Neg(v.curve, proof.QuotientPoly)
        totalG1 == Add(v.curve, ScalarMul(v.curve, proof.QuotientPoly, proof.ClaimedValue),
                       fminusfaG1)
        Ps == <<totalG1, negQuotientPoly>>
        Qs == <<v.SRS[1], v.SRS[2]>>
        err == PairingCheck(v.pairing, Ps, Qs)
    IN  [vk |-> v, err |-> IF err # "nil" THEN "ProofInvalid" ELSE "nil",
         pairing |-> <<[P |-> Ps, Q |-> Qs, err |-> err]>>]

\* AssertProof keeping the accumulated point in the receiver's SRS
AssertProof_Scribble(v, commitment, proof) ==
    LET claimedValueG1 == ScalarMulBase(v.curve, proof.ClaimedValue)
        fminusfaG1 == Add(v.curve, Neg(v.curve, claimedValueG1), commitment.G1El)
        negQuotientPoly == Neg(v.curve, proof.QuotientPoly)
        totalG1 == Add(v.curve, ScalarMul(v.curve, proof.QuotientPoly, proof.Point), fminusfaG1)
        Ps == <<totalG1, negQuotientPoly>>
        Qs == <<v.SRS[1], v.SRS[2]>>
        err == PairingCheck(v.pairing, Ps, Qs)
    IN  [vk |-> [v EXCEPT !.SRS[1] = totalG1],
         err |-> IF err # "nil" THEN "ProofInvalid" ELSE "nil",
         pairing |-> <<[P |-> Ps, Q |-> Qs, err |-> err]>>]

\* (vk *Verifier).AssertProof(commitment, proof).  The result holds the error
\* returned, the receiver as the call leaves it, and the calls made to the
\* pairing capability (arguments and what each returned), in order.
AssertProof(v, commitment, proof) ==
    LET \* [f(a)]G1
        claimedValueG1 == ScalarMulBase(v.curve, proof.ClaimedValue)
        \* [f(alpha) - f(a)]G1
        fminusfaG1 == Add(v.curve, Neg(v.curve, claimedValueG1), commitment.G1El)
        \* [-H(alpha)]G1
        negQuotientPoly == Neg(v.curve, proof.QuotientPoly)
        \* [f(alpha) - f(a) + a*H(alpha)]G1
        totalG1 == Add(v.curve, ScalarMul(v.curve, proof.QuotientPoly, proof.Point), fminusfaG1)
        Ps == <<totalG1, negQuotientPoly>>
        Qs == <<v.SRS[1], v.SRS[2]>>
        err == PairingCheck(v.pairing, Ps, Qs)
    IN  [vk |-> v,
         err |-> IF err # "nil" THEN "ProofInvalid" ELSE "nil",
         pairing |-> <<[P |-> Ps, Q |-> Qs, err |-> err]>>]

----------------------------------------------------------------------------
(* The reference (non-circuit) KZG scheme that produces the native values *)

Polys(f) == [1 .. (MaxDeg + 1) -> Fr(f)]

\* f(x), f given by its coefficients, constant term first
RECURSIVE Eval(_, _, _)
Eval(f, p, x) ==
    IF Len(p) = 0 THEN 0 ELSE (p[1] + x * Eval(f, Tail(p), x)) % Order(f)

\* the quotient (p - p(a)) / (X - a), by synthetic division
RECURSIVE Quotient(_, _, _)
Quotient(f, p, a) ==
    IF Len(p) <= 1 THEN <<>>
    ELSE LET q == Quotient(f, Tail(p), a)
             top == IF Len(q) = 0 THEN 0 ELSE q[1]
         IN  <<(p[2] + a * top) % Order(f)>> \o q

\* kzg.Commit: [p(alpha)]G1
Commit(f, p, al) == NativeG1(f, Eval(f, p, al))

\* kzg.Open: H = [((p - p(a)) / (X - a))(alpha)]G1 and ClaimedValue = p(a)
Open(f, p, a, al) == NativeProof(f, Eval(f, Quotient(f, p, a), al), Eval(f, p, a))

----------------------------------------------------------------------------
(* The caller's workflow: setup, verifier, witnesses, AssertProof *)

Init ==
    /\ pc = "start"
    /\ fam \in Families
    /\ alpha = None
    /\ srs = None
    /\ poly = None
    /\ point = None
    /\ scen = None
    /\ vk0 = None
    /\ vk = None
    /\ cmtW = None
    /\ proofW = None
    /\ last = None
    /\ conv = None
    /\ conv2 = None

\* the trusted setup: G2[0] is the generator of G2 (discrete logarithm 1) and
\* G2[1] = [alpha]G2
NewSRS(al) ==
    /\ pc = "start"
    /\ alpha' = al
    /\ srs' = NativeSRS(fam, 1, al % Order(fam))
    /\ pc' = "srs"
    /\ UNCHANGED <<fam, poly, point, scen, vk0, vk, cmtW, proofW, last, conv, conv2>>

\* any SetupParams with G2Alpha = alpha * G2Base, the identity of G2 included
InstallSRS(g, al) ==
    /\ pc = "start"
    /\ alpha' = al
    /\ srs' = NativeSRS(fam, g, (al * g) % Order(fam))
    /\ pc' = "srs"
    /\ UNCHANGED <<fam, poly, point, scen, vk0, vk, cmtW, proofW, last, conv, conv2>>

\* ValueOfSRS, then NewVerifier with the family's curve and pairing
MakeVerifier ==
    /\ pc = "srs"
    /\ LET r == ValueOfSRS(fam, srs) IN
        /\ r.err = "nil"
        /\ srs' = r.srs
        /\ vk' = NewVerifier(r.ret, fam, fam)
        /\ vk0' = NewVerifier(r.ret, fam, fam)
    /\ pc' = "verifier"
    /\ UNCHANGED <<fam, alpha, poly, point, scen, cmtW, proofW, last, conv, conv2>>

\* the prover picks the polynomial it commits to
CommitPoly(p) ==
    /\ pc = "verifier"
    /\ poly' = p
    /\ pc' = "committed"
    /\ UNCHANGED <<fam, alpha, srs, point, scen, vk0, vk, cmtW, proofW, last, conv, conv2>>

\* the prover opens the polynomial at a
OpenAt(a) ==
    /\ pc = "committed"
    /\ point' = a
    /\ pc' = "opened"
    /\ UNCHANGED <<fam, alpha, srs, poly, scen, vk0, vk, cmtW, proofW, last, conv, conv2>>

\* the caller converts native values into the witnesses it will pass
Present(s, nCmt, nPoint, nProof) ==
    /\ LET c == ValueOfCommitment(fam, nCmt)
           o == ValueOfOpeningProof(<<fam, fam>>, nPoint, nProof) IN
        /\ c.err = "nil"
        /\ o.err = "nil"
        /\ cmtW' = c.ret
        /\ proofW' = o.ret
    /\ scen' = s
    /\ last' = None
    /\ pc' = "ready"
    /\ UNCHANGED <<fam, alpha, srs, poly, point, vk0, vk, conv, conv2>>

\* the honest commitment and the honest opening proof at point
PresentHonest ==
    /\ pc = "opened"
    /\ Present([kind |-> "honest"],
               Commit(fam, poly, alpha), NativeFr(fam, point), Open(fam, poly, point, alpha))

\* the honest pair with ClaimedValue replaced by another field element
PresentTamperedValue(v) ==
    /\ pc = "opened"
    /\ LET h == Open(fam, poly, point, alpha) IN
        /\ v # h.ClaimedValue
        /\ Present([kind |-> "tamperedValue", x |-> v],
                   Commit(fam, poly, alpha), NativeFr(fam, point),
                   [h EXCEPT !.ClaimedValue = v])

\* the honest pair with QuotientCommitment replaced by another G1 element
PresentTamperedQuotient(q) ==
    /\ pc = "opened"
    /\ LET h == Open(fam, poly, point, alpha) IN
        /\ q # h.H
        /\ Present([kind |-> "tamperedQuotient", x |-> q],
                   Commit(fam, poly, alpha), NativeFr(fam, point), [h EXCEPT !.H = q])

\* QuotientCommitment and Point of the opening at point, Commitment and
\* ClaimedValue of the opening at a2
PresentOtherOpening(a2) ==
    /\ pc = "opened"
    /\ a2 # point
    /\ LET h == Open(fam, poly, point, alpha)
           h2 == Open(fam, poly, a2, alpha) IN
        Present([kind |-> "otherOpening", x |-> a2],
                Commit(fam, poly, alpha), NativeFr(fam, point),
                [h EXCEPT !.ClaimedValue = h2.ClaimedValue])

\* the honest pair with Point replaced by a2
PresentMovedPoint(a2) ==
    /\ pc = "opened"
    /\ a2 # point
    /\ Present([kind |-> "movedPoint", x |-> a2],
               Commit(fam, poly, alpha), NativeFr(fam, a2), Open(fam, poly, point, alpha))

\* the caller takes any commitment of the verifier's family
SupplyCommitment(c) ==
    /\ pc \in {"verifier", "called"}
    /\ LET cw == ValueOfCommitment(fam, NativeG1(fam, c)) IN
        /\ cw.err = "nil"
        /\ cmtW' = cw.ret
    /\ scen' = IF pc = "verifier" THEN [kind |-> "arbitrary", again |-> FALSE, c |-> c]
               ELSE [scen EXCEPT !.c = c, !.again = TRUE]
    /\ last' = None
    /\ pc' = IF pc = "verifier" THEN "commitment" ELSE "ready"
    /\ UNCHANGED <<fam, alpha, srs, poly, point, vk0, vk, proofW, conv, conv2>>

\* the caller takes any opening proof of the verifier's family
SupplyProof(q, v, a) ==
    /\ pc \in {"commitment", "called"}
    /\ LET ow == ValueOfOpeningProof(<<fam, fam>>, NativeFr(fam, a), NativeProof(fam, q, v)) IN
        /\ ow.err = "nil"
        /\ proofW' = ow.ret
    /\ scen' = [kind |-> "arbitrary", again |-> (pc = "called"), c |-> scen.c,
                q |-> q, v |-> v, a |-> a]
    /\ last' = None
    /\ pc' = "ready"
    /\ UNCHANGED <<fam, alpha, srs, poly, point, vk0, vk, cmtW, conv, conv2>>

\* vk.AssertProof(commitment, proof) on the witnesses the caller holds
Verify ==
    /\ pc = "ready"
    /\ LET r == AssertProof(vk, cmtW, proofW) IN
        /\ vk' = r.vk
        /\ last' = [commitment |-> cmtW, proof |-> proofW, err |-> r.err, pairing |-> r.pairing]
    /\ pc' = "called"
    /\ UNCHANGED <<fam, alpha, srs, poly, point, scen, vk0, cmtW, proofW, conv, conv2>>

\* the caller drops the witnesses of a finished call and keeps the Verifier
Discard ==
    /\ pc = "called"
    /\ scen.kind # "arbitrary"
    /\ scen' = None
    /\ cmtW' = None
    /\ proofW' = None
    /\ last' = None
    /\ pc' = "opened"
    /\ UNCHANGED <<fam, alpha, srs, poly, point, vk0, vk, conv, conv2>>

----------------------------------------------------------------------------
(* Conversion calls on their own *)

\* ValueOfCommitment[sel](cmt)
ConvertCommitment(sel, cmt) ==
    /\ pc = "start"
    /\ conv' = [fn |-> "ValueOfCommitment", sel |-> sel, args |-> <<cmt>>,
                res |-> ValueOfCommitment(sel, cmt)]
    /\ conv2' = None
    /\ pc' = "converted"
    /\ UNCHANGED <<fam, alpha, srs, poly, point, scen, vk0, vk, cmtW, proofW, last>>

\* ValueOfOpeningProof[sel[1], sel[2]](pt, proof)
ConvertOpeningProof(sel, pt, proof) ==
    /\ pc = "start"
    /\ conv' = [fn |-> "ValueOfOpeningProof", sel |-> sel, args |-> <<pt, proof>>,
                res |-> ValueOfOpeningProof(sel, pt, proof)]
    /\ conv2' = None
    /\ pc' = "converted"
    /\ UNCHANGED <<fam, alpha, srs, poly, point, scen, vk0, vk, cmtW, proofW, last>>

\* ValueOfSRS[sel](s): s points at the object kept in srs
ConvertSRS(sel, s) ==
    /\ pc = "start"
    /\ LET r == ValueOfSRS(sel, s) IN
        /\ conv' = [fn |-> "ValueOfSRS", sel |-> sel, args |-> <<s>>,
                    res |-> [ret |-> r.ret, err |-> r.err]]
        /\ srs' = r.srs
    /\ conv2' = None
    /\ pc' = "converted"
    /\ UNCHANGED <<fam, alpha, poly, point, scen, vk0, vk, cmtW, proofW, last>>

\* the same conversion once more, on the same native values
Reconvert ==
    /\ pc = "converted"
    /\ conv2 = None
    /\ \/ /\ conv.fn = "ValueOfCommitment"
          /\ conv2' = ValueOfCommitment(conv.sel, conv.args[1])
          /\ srs' = srs
       \/ /\ conv.fn = "ValueOfOpeningProof"
          /\ conv2' = ValueOfOpeningProof(conv.sel, conv.args[1], conv.args[2])
          /\ srs' = srs
       \/ /\ conv.fn = "ValueOfSRS"
          /\ LET r == ValueOfSRS(conv.sel, srs) IN
              /\ conv2' = [ret |-> r.ret, err |-> r.err]
              /\ srs' = r.srs
    /\ UNCHANGED <<pc, fam, alpha, poly, point, scen, vk0, vk, cmtW, proofW, last, conv>>

----------------------------------------------------------------------------
(* Specifications *)

\* an honest setup, an honest prover, and a caller presenting honest or
\* altered pairs
Next ==
    \/ \E al \in Fr(fam) : NewSRS(al)
    \/ MakeVerifier
    \/ \E p \in Polys(fam) : CommitPoly(p)
    \/ \E a \in Fr(fam) : OpenAt(a)
    \/ PresentHonest
    \/ \E v \in Fr(fam) : PresentTamperedValue(v)
    \/ \E q \in Fr(fam) : PresentTamperedQuotient(q)
    \/ \E a2 \in Fr(fam) : PresentOtherOpening(a2)
    \/ \E a2 \in Fr(fam) : PresentMovedPoint(a2)
    \/ Verify
    \/ Discard

Spec == Init /\ [][Next]_vars

\* any setup of the form (G2Base, alpha * G2Base) and any witnesses
NextCalls ==
    \/ \E g \in Fr(fam), al \in Fr(fam) : InstallSRS(g, al)
    \/ MakeVerifier
    \/ \E c \in Fr(fam) : SupplyCommitment(c)
    \/ \E q \in Fr(fam), v \in Fr(fam), a \in Fr(fam) : SupplyProof(q, v, a)
    \/ Verify

SpecCalls == Init /\ [][NextCalls]_vars

\* conversion calls with every selector and every native value
NextConv ==
    \/ \E sel \in Selectors, cmt \in NativeG1s : ConvertCommitment(sel, cmt)
    \/ \E sel \in Selectors \X Selectors, pt \in NativeFrs, proof \in NativeProofs :
            ConvertOpeningProof(sel, pt, proof)
    \/ \E sel \in Selectors, s \in NativeSRSs : ConvertSRS(sel, s)
    \/ Reconvert

SpecConv == Init /\ [][NextConv]_vars

----------------------------------------------------------------------------
(* Properties of AssertProof on honest and altered pairs (Spec) *)

\* f(a), the value of the committed polynomial at the opened point
ValueAtPoint == Eval(fam, poly, point)

\* H(alpha), H = (f - f(a)) / (X - a)
QuotientAtAlpha == Eval(fam, Quotient(fam, poly, point), alpha)

Called(kind) == pc = "called" /\ scen.kind = kind

\* C1: completeness.  For every polynomial f, every setup scalar alpha and
\* every point a, AssertProof on the converted honest commitment [f(alpha)]G1
\* and honest proof ([H(alpha)]G1, f(a), a) returns nil.
C1_HonestAccepted == Called("honest") => last.err = "nil"

C1_Witness ==
    /\ Called("honest")
    /\ last.err = "nil"
    /\ fam = "bn254"
    /\ poly[MaxDeg + 1] # 0
    /\ point # alpha
    /\ QuotientAtAlpha # 0

\* C2: an honest pair whose ClaimedValue is replaced by any other field
\* element is rejected with ProofInvalid.
C2_TamperedValueRejected == Called("tamperedValue") => last.err = "ProofInvalid"

C2_Witness ==
    /\ Called("tamperedValue")
    /\ scen.x = (ValueAtPoint + 1) % Order(fam)
    /\ poly[MaxDeg + 1] # 0
    /\ last.err = "ProofInvalid"

\* C3 as claimed: an honest pair whose QuotientCommitment is replaced by any
\* other G1 element is rejected with ProofInvalid, for every polynomial,
\* every alpha and every evaluation point.
C3_TamperedQuotientRejected == Called("tamperedQuotient") => last.err = "ProofInvalid"

\* C3 amended: an honest pair whose QuotientCommitment is replaced by any
\* other G1 element is rejected with ProofInvalid for every evaluation point
\* other than alpha; at the point alpha itself it is accepted.
C3_TamperedQuotientRejectedOffAlpha ==
    Called("tamperedQuotient") => (last.err = "ProofInvalid" <=> point # alpha)

C3_Witness ==
    /\ Called("tamperedQuotient")
    /\ point # alpha
    /\ poly[MaxDeg + 1] # 0
    /\ last.err = "ProofInvalid"

\* C4 as claimed: the quotient and point of the opening at a, presented with
\* the commitment and claimed value of the opening at a2 # a, are rejected;
\* and so is the honest pair for a with its Point replaced by a2 # a.
C4_WrongPointRejected ==
    (Called("otherOpening") \/ Called("movedPoint")) => last.err = "ProofInvalid"

\* C4 amended: the first pair is rejected exactly when f(a2) # f(a), and the
\* second exactly when H(alpha) # 0 (the quotient commitment is not the
\* identity of G1); otherwise the pair is accepted.
C4_WrongPointRejectedWhenDistinguishable ==
    /\ Called("otherOpening") =>
          (last.err = "ProofInvalid" <=> Eval(fam, poly, scen.x) # ValueAtPoint)
    /\ Called("movedPoint") =>
          (last.err = "ProofInvalid" <=> QuotientAtAlpha # 0)

C4_Witness ==
    /\ Called("otherOpening")
    /\ Eval(fam, poly, scen.x) # ValueAtPoint
    /\ poly[MaxDeg + 1] # 0
    /\ last.err = "ProofInvalid"

----------------------------------------------------------------------------
(* Properties of AssertProof on any witnesses (SpecCalls) *)

Mod(n, f) == ((n % Order(f)) + Order(f)) % Order(f)

\* the first argument the algorithm gives the pairing check, as a value of G1:
\* a*Q + (C - v)
TotalG1Value == Mod(scen.q * scen.a + scen.c - scen.v, fam)

\* e(a*Q + (C - v), G2Base) * e(-Q, G2Alpha) is the identity of Gt
BatchedEquation ==
    Mod(TotalG1Value * srs.G2[1] + Mod(0 - scen.q, fam) * srs.G2[2], fam) = 0

\* e(C - [v]G1, G2Base) = e(Q, G2Alpha - a*G2Base)
TextbookEquation ==
    Mod((scen.c - scen.v) * srs.G2[1], fam)
        = Mod(scen.q * Mod(srs.G2[2] - scen.a * srs.G2[1], fam), fam)

\* C7: after any sequence of AssertProof calls the Verifier (its SRS and its
\* two capabilities) is as NewVerifier returned it, the witnesses passed are
\* as the caller held them, and the outcome of the call is the outcome the
\* same arguments give on the Verifier as constructed.
C7_CallsIndependent ==
    /\ vk = vk0
    /\ pc = "called" =>
          /\ last.commitment = cmtW
          /\ last.proof = proofW
          /\ last.err = AssertProof(vk0, cmtW, proofW).err

C7_Witness ==
    /\ Called("arbitrary")
    /\ scen.again
    /\ vk = vk0
    /\ last.err = "nil"
    /\ scen.q # 0

\* C8: AssertProof makes one PairingCheck call, on the pairs (totalG1, G2Base)
\* and (negQuotientG1, G2Alpha), and returns nil exactly when that call
\* returned nil and ProofInvalid exactly when it returned an error.
C8_PairingOutcomeSurfaced ==
    pc = "called" =>
        /\ Len(last.pairing) = 1
        /\ last.pairing[1].Q = <<vk.SRS[1], vk.SRS[2]>>
        /\ Len(last.pairing[1].P) = 2
        /\ Called("arbitrary") =>
              /\ ElemValue(last.pairing[1].P[1]) = TotalG1Value
              /\ ElemValue(last.pairing[1].P[2]) = Mod(0 - scen.q, fam)
        /\ last.pairing[1].err = PairingCheck(vk.pairing, last.pairing[1].P, last.pairing[1].Q)
        /\ last.err = "nil" <=> last.pairing[1].err = "nil"
        /\ last.err = "ProofInvalid" <=> last.pairing[1].err # "nil"

C8_Witness ==
    /\ Called("arbitrary")
    /\ last.pairing[1].err # "nil"
    /\ last.err = "ProofInvalid"

\* C10: for every commitment, quotient commitment, claimed value and point and
\* every setup (G2Base, alpha * G2Base), AssertProof accepts exactly when the
\* textbook equation e(C - [v]G1, G2Base) = e(Q, G2Alpha - a*G2Base) holds,
\* and the batched two-pair equation holds exactly when the textbook one does.
C10_BatchedIsTextbook ==
    Called("arbitrary") =>
        /\ last.err = "nil" <=> TextbookEquation
        /\ BatchedEquation <=> TextbookEquation

C10_Witness ==
    /\ Called("arbitrary")
    /\ last.err = "nil"
    /\ TextbookEquation
    /\ srs.G2[1] # 0
    /\ scen.q # 0
    /\ scen.a # alpha

----------------------------------------------------------------------------
(* Properties of the conversion functions (SpecConv) *)

Diagonal == {<<f, f>> : f \in Families}

\* the selector of the recorded call names one of the two families
Supported ==
    IF conv.fn = "ValueOfOpeningProof" THEN conv.sel \in Diagonal ELSE conv.sel \in Families

SelFamily == IF conv.fn = "ValueOfOpeningProof" THEN conv.sel[1] ELSE conv.sel

\* the native types the selected family's branch asserts, argument by argument
ExpectedTypes ==
    CASE conv.fn = "ValueOfCommitment" -> <<G1Type(SelFamily)>>
      [] conv.fn = "ValueOfOpeningProof" -> <<FrType(SelFamily), ProofType(SelFamily)>>
      [] conv.fn = "ValueOfSRS" -> <<SRSPtrType(SelFamily)>>

ZeroWitness ==
    CASE conv.fn = "ValueOfCommitment" -> [G1El |-> ZeroG1(conv.sel)]
      [] conv.fn = "ValueOfOpeningProof" -> ZeroProof(conv.sel)
      [] conv.fn = "ValueOfSRS" -> ZeroSRS(conv.sel)

\* C5: with a selector of a supported family, a native input whose concrete
\* type is not that family's makes the conversion fail with TypeMismatch and
\* return no converted witness.
C5_MismatchDetected ==
    (pc = "converted" /\ Supported
        /\ \E i \in 1 .. Len(conv.args) : conv.args[i].type # ExpectedTypes[i])
    => (conv.res.err = "TypeMismatch" /\ conv.res.ret = ZeroWitness)

C5_Witness ==
    /\ pc = "converted"
    /\ conv.fn = "ValueOfOpeningProof"
    /\ conv.sel = <<"bn254", "bn254">>
    /\ conv.args[1].type = FrType("bls12377")
    /\ conv.args[2].type = ProofType("bn254")
    /\ conv.res.err = "TypeMismatch"

\* C6: a selector outside the two supported families makes every conversion
\* fail with UnsupportedFamily, whatever the native values are.
C6_UnknownFamilyRejected ==
    (pc = "converted" /\ ~Supported) => conv.res.err = "UnsupportedFamily"

C6_Witness ==
    /\ pc = "converted"
    /\ conv.fn = "ValueOfCommitment"
    /\ conv.sel = "bls12381"
    /\ conv.args[1].type = "other"
    /\ conv.res.err = "UnsupportedFamily"

\* C9: converting the same native values a second time gives the outcome of
\* the first conversion, witness and error alike, and a conversion leaves the
\* native SRS it was given, and everything else, as it was.
C9_ConversionIdempotent ==
    /\ conv2 # None => conv2 = conv.res
    /\ (pc = "converted" /\ conv.fn = "ValueOfSRS") => srs = conv.args[1]
    /\ pc \in {"start", "converted"} =>
          (vk = None /\ cmtW = None /\ proofW = None /\ last = None)

C9_Witness ==
    /\ conv2 # None
    /\ conv.fn = "ValueOfSRS"
    /\ conv2.err = "nil"
    /\ conv2 = conv.res

====
